---------------------------- MODULE Spec2Model ----------------------------
(***************************************************************************)
(* Model of src/transcript.py: the response sanitizer                      *)
(* (sanitize_json_response), the JSON decoding of the sanitized reply, the *)
(* ranking of insights and quotes, and the control flow of                 *)
(* call_claude_for_digest with its error results.                          *)
(*                                                                         *)
(* A text is a sequence of one-character strings.  Python indexes are kept *)
(* 0-based where the source compares them (find, rfind); TLA+ sequences    *)
(* are 1-based, so Python index p is element p + 1.                        *)
(***************************************************************************)
EXTENDS Integers, Sequences, FiniteSets, TLC

NL == "\n"
QUOTE == "\""
\* The backquote character; the lexer reads a backquote as the start of a
\* quotation, so the model names the character instead.
TICK == "BQ"
LBRACE == "{"
RBRACE == "}"

(* ----------------------------- texts ---------------------------------- *)

\* str.isspace() / the regex class \s, over the characters the model uses.
IsSpace(c) == c \in {" ", NL, "\t", "\r"}

SetMin(S) == CHOOSE x \in S : \A y \in S : x <= y
SetMax(S) == CHOOSE x \in S : \A y \in S : y <= x

\* Concatenation of a sequence of texts.
RECURSIVE Concat(_)
Concat(ts) == IF ts = <<>> THEN <<>> ELSE Head(ts) \o Concat(Tail(ts))

\* n copies of the character c.
Repeat(c, n) == [i \in 1..n |-> c]

\* s starts with the text w at element i.
StartsAt(s, w, i) ==
    /\ i >= 1
    /\ i + Len(w) - 1 <= Len(s)
    /\ \A k \in 1..Len(w) : s[i + k - 1] = w[k]

\* str.strip()
Strip(s) ==
    LET keep == {i \in 1..Len(s) : ~IsSpace(s[i])}
    IN  IF keep = {} THEN <<>> ELSE SubSeq(s, SetMin(keep), SetMax(keep))

\* str.find(c): the 0-based index of the first c, -1 when there is none.
Find(s, c) ==
    LET at == {i \in 1..Len(s) : s[i] = c}
    IN  IF at = {} THEN -1 ELSE SetMin(at) - 1

\* str.rfind(c): the 0-based index of the last c, -1 when there is none.
RFind(s, c) ==
    LET at == {i \in 1..Len(s) : s[i] = c}
    IN  IF at = {} THEN -1 ELSE SetMax(at) - 1

\* s[p:] and s[:p] for a 0-based p in 0..len(s).
SliceFrom(s, p) == SubSeq(s, p + 1, Len(s))
SliceTo(s, p) == SubSeq(s, 1, p)

(* ------------------- sanitize_json_response --------------------------- *)

FENCE == <<TICK, TICK, TICK>>
JSONTAG == <<"j", "s", "o", "n">>

\* The first element at or after i that is not whitespace (Len(s) + 1 when
\* the rest is whitespace): where a greedy run of whitespace stops.
SkipSpace(s, i) == SetMin({j \in i..(Len(s) + 1) : j > Len(s) \/ ~IsSpace(s[j])})

\* The head of the pattern of line 23, three backquotes, an optional json
\* tag, optional whitespace and the opening brace of the group: with the
\* fence opening at element i, the element of that brace, 0 when the pattern
\* fails there.  The optional tag is greedy; without it the next element
\* would have to be whitespace or the brace.
FenceOpenBrace(s, i) ==
    IF ~StartsAt(s, FENCE, i) THEN 0
    ELSE LET j == IF StartsAt(s, JSONTAG, i + 3) THEN i + 7 ELSE i + 3
             p == SkipSpace(s, j)
         IN  IF p <= Len(s) /\ s[p] = LBRACE THEN p ELSE 0

\* The tail of the pattern: a closing brace at element q followed by optional
\* whitespace and three backquotes.
ClosesFence(s, q) ==
    /\ q <= Len(s)
    /\ s[q] = RBRACE
    /\ StartsAt(s, FENCE, SkipSpace(s, q + 1))

\* The lazy body of the group under re.DOTALL: the nearest closing brace after
\* the opening brace at p that closes the fence, 0 when there is none.
FenceCloseBrace(s, p) ==
    LET qs == {q \in (p + 1)..Len(s) : ClosesFence(s, q)}
    IN  IF p = 0 \/ qs = {} THEN 0 ELSE SetMin(qs)

\* re.search of line 23: the leftmost opening that matches; <<p, q>> bounds
\* group(1), <<0, 0>> is None.
FenceSearch(s) ==
    LET starts == {i \in 1..Len(s) : FenceCloseBrace(s, FenceOpenBrace(s, i)) # 0}
    IN  IF starts = {} THEN <<0, 0>>
        ELSE LET p == FenceOpenBrace(s, SetMin(starts))
             IN  <<p, FenceCloseBrace(s, p)>>

\* Lines 23-25: keep group(1) of the fence match when there is one.
ExtractFence(s) ==
    LET m == FenceSearch(s)
    IN  IF m[1] # 0 THEN SubSeq(s, m[1], m[2]) ELSE s

\* Lines 28-30: drop what precedes the first opening brace.
TrimBeforeFirstBrace(s) ==
    LET start_idx == Find(s, LBRACE)
    IN  IF start_idx > 0 THEN SliceFrom(s, start_idx) ELSE s

\* A slice off by one, dropping the closing brace itself.
TrimAfterLastBraceOffByOne(s) ==
    LET end_idx == RFind(s, RBRACE)
    IN  IF end_idx # -1 THEN SliceTo(s, end_idx) ELSE s

\* Lines 33-35: drop what follows the last closing brace.
TrimAfterLastBrace(s) ==
    LET end_idx == RFind(s, RBRACE)
    IN  IF end_idx # -1 THEN SliceTo(s, end_idx + 1) ELSE s

\* Line 38: every newline becomes a space.
ReplaceNewlines(s) == [i \in 1..Len(s) |-> IF s[i] = NL THEN " " ELSE s[i]]

\* Line 39: re.sub of whitespace runs: every maximal run of whitespace
\* becomes one space.
CollapseSpaces(s) ==
    LET first == SelectSeq([i \in 1..Len(s) |-> i],
                           LAMBDA i : ~IsSpace(s[i]) \/ i = 1 \/ ~IsSpace(s[i - 1]))
    IN  [k \in 1..Len(first) |-> IF IsSpace(s[first[k]]) THEN " " ELSE s[first[k]]]

\* sanitize_json_response, lines 15-41.
sanitize_json_response(raw_text) ==
    LET t1 == Strip(raw_text)
        t2 == ExtractFence(t1)
        t3 == TrimBeforeFirstBrace(t2)
        t4 == TrimAfterLastBrace(t3)
        t5 == ReplaceNewlines(t4)
        t6 == CollapseSpaces(t5)
    IN  Strip(t6)

(* --------------------------- JSON values ------------------------------ *)

\* A decoded JSON value (what json.loads returns): t tags the Python type;
\* s holds a str's characters, n a number (True is 1, False is 0), a a list's
\* items, o a dict as a function from keys (texts) to values.
JNull == [t |-> "null", s |-> <<>>, n |-> 0, a |-> <<>>, o |-> <<>>]
JBool(b) == [t |-> "bool", s |-> <<>>, n |-> IF b THEN 1 ELSE 0, a |-> <<>>, o |-> <<>>]
JNum(k) == [t |-> "num", s |-> <<>>, n |-> k, a |-> <<>>, o |-> <<>>]
JStr(x) == [t |-> "str", s |-> x, n |-> 0, a |-> <<>>, o |-> <<>>]
JArr(items) == [t |-> "arr", s |-> <<>>, n |-> 0, a |-> items, o |-> <<>>]
JObj(f) == [t |-> "obj", s |-> <<>>, n |-> 0, a |-> <<>>, o |-> f]

\* d[k] = v on a dict held as a function: a repeated key keeps the last value.
DictPut(f, k, v) == [x \in (DOMAIN f) \cup {k} |-> IF x = k THEN v ELSE f[x]]

\* A dict literal from a sequence of <<key, value>> pairs.
RECURSIVE DictOf(_)
DictOf(pairs) ==
    IF pairs = <<>> THEN <<>>
    ELSE LET n == Len(pairs)
         IN  DictPut(DictOf(SubSeq(pairs, 1, n - 1)), pairs[n][1], pairs[n][2])

(* ------------------------------ json.loads ---------------------------- *)

\* s[p:p+1] for a 0-based p: the character, or "" past the end.
At(s, p) == IF p >= 0 /\ p < Len(s) THEN s[p + 1] ELSE ""

\* The decoder's WHITESPACE pattern.
JsonWs(c) == c \in {" ", "\t", NL, "\r"}

\* WHITESPACE.match(s, p).end()
SkipWs(s, p) == SetMin({q \in p..Len(s) : q = Len(s) \/ ~JsonWs(s[q + 1])})

\* Characters a strict JSON string may not hold unescaped (of those the model
\* uses).
IsControl(c) == c \in {NL, "\t", "\r"}

IsDigit(c) == c \in {"0", "1", "2", "3", "4", "5", "6", "7", "8", "9"}
DigitVal(c) ==
    CASE c = "0" -> 0 [] c = "1" -> 1 [] c = "2" -> 2 [] c = "3" -> 3 [] c = "4" -> 4
      [] c = "5" -> 5 [] c = "6" -> 6 [] c = "7" -> 7 [] c = "8" -> 8 [] c = "9" -> 9

RECURSIVE DigitsVal(_)
DigitsVal(ds) ==
    IF ds = <<>> THEN 0
    ELSE 10 * DigitsVal(SubSeq(ds, 1, Len(ds) - 1)) + DigitVal(ds[Len(ds)])

Decoded(v, e) == [ok |-> TRUE, v |-> v, end |-> e, msg |-> "", pos |-> 0]
DecodeError(m, p) == [ok |-> FALSE, v |-> JNull, end |-> 0, msg |-> m, pos |-> p]

\* scanstring(s, begin, strict=True), begin just past the opening quote.  The
\* model's texts hold no backslash, so no escape is decoded.
ScanString(s, begin) ==
    LET stops == {q \in begin..(Len(s) - 1) : s[q + 1] = QUOTE \/ IsControl(s[q + 1])}
    IN  IF stops = {} THEN DecodeError("Unterminated string starting at", begin - 1)
        ELSE LET q == SetMin(stops)
             IN  IF s[q + 1] = QUOTE THEN Decoded(JStr(SubSeq(s, begin + 1, q)), q + 1)
                 ELSE DecodeError("Invalid control character at", q)

\* NUMBER_RE at p, integers only: 0, or a nonzero digit and the digits after
\* it.  The model's texts put no fraction, exponent or sign after a digit.
ScanNumber(s, p) ==
    LET e == IF At(s, p) = "0" THEN p + 1
             ELSE SetMin({q \in (p + 1)..Len(s) : q = Len(s) \/ ~IsDigit(s[q + 1])})
    IN  Decoded(JNum(DigitsVal(SubSeq(s, p + 1, e))), e)

RECURSIVE ScanOnce(_, _), ObjectMembers(_, _, _), ArrayItems(_, _, _)

\* The loop of JSONObject, end just past the opening quote of a key; f holds
\* the pairs decoded so far.
ObjectMembers(s, end, f) ==
    LET key == ScanString(s, end)
    IN  IF ~key.ok THEN key
        ELSE
        LET c == IF At(s, key.end) # ":" THEN SkipWs(s, key.end) ELSE key.end
        IN  IF At(s, c) # ":" THEN DecodeError("Expecting ':' delimiter", c)
            ELSE
            LET val == ScanOnce(s, SkipWs(s, c + 1))
            IN  IF ~val.ok THEN val
                ELSE
                LET g == DictPut(f, key.v.s, val.v)
                    d == SkipWs(s, val.end)
                IN  IF At(s, d) = RBRACE THEN Decoded(JObj(g), d + 1)
                    ELSE IF At(s, d) # "," THEN DecodeError("Expecting ',' delimiter", d)
                    ELSE LET k == SkipWs(s, d + 1)
                         IN  IF At(s, k) # QUOTE
                             THEN DecodeError("Expecting property name enclosed in double quotes", k)
                             ELSE ObjectMembers(s, k + 1, g)

\* The loop of JSONArray, end at the next item; items holds those decoded.
ArrayItems(s, end, items) ==
    LET val == ScanOnce(s, end)
    IN  IF ~val.ok THEN val
        ELSE
        LET more == Append(items, val.v)
            d == SkipWs(s, val.end)
        IN  IF At(s, d) = "]" THEN Decoded(JArr(more), d + 1)
            ELSE IF At(s, d) # "," THEN DecodeError("Expecting ',' delimiter", d)
            ELSE ArrayItems(s, SkipWs(s, d + 1), more)

\* scan_once(s, idx): the value that starts at idx.
ScanOnce(s, idx) ==
    LET c == At(s, idx)
    IN  CASE c = QUOTE -> ScanString(s, idx + 1)
          [] c = LBRACE ->
                LET k == SkipWs(s, idx + 1)
                IN  IF At(s, k) = RBRACE THEN Decoded(JObj(<<>>), k + 1)
                    ELSE IF At(s, k) # QUOTE
                    THEN DecodeError("Expecting property name enclosed in double quotes", k)
                    ELSE ObjectMembers(s, k + 1, <<>>)
          [] c = "[" ->
                LET k == SkipWs(s, idx + 1)
                IN  IF At(s, k) = "]" THEN Decoded(JArr(<<>>), k + 1)
                    ELSE ArrayItems(s, k, <<>>)
          [] c = "n" /\ StartsAt(s, <<"n", "u", "l", "l">>, idx + 1) -> Decoded(JNull, idx + 4)
          [] c = "t" /\ StartsAt(s, <<"t", "r", "u", "e">>, idx + 1) -> Decoded(JBool(TRUE), idx + 4)
          [] c = "f" /\ StartsAt(s, <<"f", "a", "l", "s", "e">>, idx + 1) ->
                Decoded(JBool(FALSE), idx + 5)
          [] IsDigit(c) -> ScanNumber(s, idx)
          [] OTHER -> DecodeError("Expecting value", idx)

\* json.loads(s): one value, whitespace around it allowed, nothing after it.
json_loads(s) ==
    LET r == ScanOnce(s, SkipWs(s, 0))
    IN  IF ~r.ok THEN r
        ELSE LET e == SkipWs(s, r.end)
             IN  IF e # Len(s) THEN DecodeError("Extra data", e) ELSE r

(* ---------------- Python operations on decoded values ----------------- *)

K_content == <<"c", "o", "n", "t", "e", "n", "t">>
K_text == <<"t", "e", "x", "t">>
K_insights == <<"i", "n", "s", "i", "g", "h", "t", "s">>
K_quotes == <<"q", "u", "o", "t", "e", "s">>
K_insight == <<"i", "n", "s", "i", "g", "h", "t">>
K_quote == <<"q", "u", "o", "t", "e">>
K_confidence_score ==
    <<"c", "o", "n", "f", "i", "d", "e", "n", "c", "e", "_", "s", "c", "o", "r", "e">>
K_relevance_score ==
    <<"r", "e", "l", "e", "v", "a", "n", "c", "e", "_", "s", "c", "o", "r", "e">>
K_error == <<"e", "r", "r", "o", "r">>
K_status == <<"s", "t", "a", "t", "u", "s">>
K_details == <<"d", "e", "t", "a", "i", "l", "s">>
K_json_error == <<"j", "s", "o", "n", "_", "e", "r", "r", "o", "r">>
K_raw_response == <<"r", "a", "w", "_", "r", "e", "s", "p", "o", "n", "s", "e">>
K_sanitized_attempt ==
    <<"s", "a", "n", "i", "t", "i", "z", "e", "d", "_", "a", "t", "t", "e", "m", "p", "t">>
K_exception == <<"e", "x", "c", "e", "p", "t", "i", "o", "n">>

\* The outcome of an expression: a value, or the class of the exception it
\* raises.
Value(v) == [ok |-> TRUE, v |-> v, exc |-> ""]
Raises(e) == [ok |-> FALSE, v |-> JNull, exc |-> e]

\* v[key] for a str key.
GetItem(v, key) ==
    IF v.t = "obj"
    THEN IF key \in DOMAIN v.o THEN Value(v.o[key]) ELSE Raises("KeyError")
    ELSE Raises("TypeError")

\* v[0]
GetFirst(v) ==
    CASE v.t = "arr" -> IF v.a = <<>> THEN Raises("IndexError") ELSE Value(v.a[1])
      [] v.t = "str" -> IF v.s = <<>> THEN Raises("IndexError") ELSE Value(JStr(<<v.s[1]>>))
      [] v.t = "obj" -> Raises("KeyError")
      [] OTHER -> Raises("TypeError")

\* data["content"][0]["text"], lines 145 and 173.
ReplyText(data) ==
    LET c == GetItem(data, K_content)
    IN  IF ~c.ok THEN c
        ELSE LET f == GetFirst(c.v)
             IN  IF ~f.ok THEN f ELSE GetItem(f.v, K_text)

\* key in v, for a str key: a dict's keys, a list's items, a str's substrings.
PyIn(key, v) ==
    CASE v.t = "obj" -> [ok |-> TRUE, b |-> key \in DOMAIN v.o, exc |-> ""]
      [] v.t = "arr" ->
            [ok |-> TRUE, b |-> \E i \in 1..Len(v.a) : v.a[i] = JStr(key), exc |-> ""]
      [] v.t = "str" ->
            [ok |-> TRUE, b |-> \E i \in 1..(Len(v.s) + 1) : StartsAt(v.s, key, i), exc |-> ""]
      [] OTHER -> [ok |-> FALSE, b |-> FALSE, exc |-> "TypeError"]

\* A missing score taken as 10.
ScoreKeyDefaultTen(x, field) == IF field \in DOMAIN x.o THEN x.o[field] ELSE JNum(10)

\* lambda x: x.get(field, 0), lines 155 and 163, for a dict x.
ScoreKey(x, field) == IF field \in DOMAIN x.o THEN x.o[field] ELSE JNum(0)

\* The place of a new item in a list sorted with reverse=True: behind every
\* item whose key is not smaller, so equal keys keep their order.
RECURSIVE InsertDescending(_, _, _)
InsertDescending(sorted, x, field) ==
    IF sorted = <<>> THEN <<x>>
    ELSE IF ScoreKey(Head(sorted), field).n >= ScoreKey(x, field).n
         THEN <<Head(sorted)>> \o InsertDescending(Tail(sorted), x, field)
         ELSE <<x>> \o sorted

RECURSIVE SortDescending(_, _)
SortDescending(items, field) ==
    IF items = <<>> THEN <<>>
    ELSE LET n == Len(items)
         IN  InsertDescending(SortDescending(SubSeq(items, 1, n - 1), field), items[n], field)

\* sorted(v, key=lambda x: x.get(field, 0), reverse=True), lines 153-157 and
\* 161-165.  The key is taken of every item first (an item that is no dict
\* has no get); then the keys are compared, numbers with numbers.  None and
\* dicts are never ordered; the model's replies hold no str or list score.
Sorted(v, field) ==
    CASE v.t \in {"null", "bool", "num"} -> Raises("TypeError")
      [] v.t = "str" -> IF v.s = <<>> THEN Value(JArr(<<>>)) ELSE Raises("AttributeError")
      [] v.t = "obj" -> IF DOMAIN v.o = {} THEN Value(JArr(<<>>)) ELSE Raises("AttributeError")
      [] OTHER ->
            IF \E i \in 1..Len(v.a) : v.a[i].t # "obj" THEN Raises("AttributeError")
            ELSE IF /\ Len(v.a) >= 2
                    /\ \E i \in 1..Len(v.a) : ScoreKey(v.a[i], field).t \notin {"num", "bool"}
                 THEN Raises("TypeError")
            ELSE Value(JArr(SortDescending(v.a, field)))

\* if field_name in result_json: result_json[field_name] = sorted(...), lines
\* 152-157 and 160-165.
RankField(result_json, list_key, field) ==
    LET has == PyIn(list_key, result_json)
    IN  IF ~has.ok THEN Raises(has.exc)
        ELSE IF ~has.b THEN Value(result_json)
        ELSE LET got == GetItem(result_json, list_key)
             IN  IF ~got.ok THEN got
                 ELSE LET srt == Sorted(got.v, field)
                      IN  IF ~srt.ok THEN srt
                          ELSE Value(JObj(DictPut(result_json.o, list_key, srt.v)))

\* Lines 151-167: insights by confidence_score, then quotes by relevance_score.
Rank(result_json) ==
    LET r1 == RankField(result_json, K_insights, K_confidence_score)
    IN  IF ~r1.ok THEN r1 ELSE RankField(r1.v, K_quotes, K_relevance_score)

(* ----------------------------- results -------------------------------- *)

\* A message of the source, held whole as one element.
Msg(m) == JStr(<<m>>)

ExcerptLimit == 500
ELLIPSIS == <<".", ".", ".">>

\* The cut made at the limit itself.
ExcerptAtLimit(text) ==
    IF Len(text) >= ExcerptLimit THEN SubSeq(text, 1, ExcerptLimit) \o ELLIPSIS ELSE text

\* text[:500] + "..." if len(text) > 500 else text, lines 173-174.
Excerpt(text) ==
    IF Len(text) > ExcerptLimit THEN SubSeq(text, 1, ExcerptLimit) \o ELLIPSIS ELSE text

\* Line 48.
ConfigErrorResult ==
    JObj(DictOf(<< <<K_error, Msg("Missing ANTHROPIC_API_KEY in Streamlit secrets")>> >>))

\* Lines 130-132.
TimeoutResult ==
    JObj(DictOf(<< <<K_error,
        Msg("Claude API timed out after 45 seconds. Try again or reduce transcript length.")>> >>))

\* Lines 135-139.
ProviderErrorResult(status_code, body) ==
    JObj(DictOf(<< <<K_error, Msg("Claude API request failed")>>,
                   <<K_status, JNum(status_code)>>,
                   <<K_details, Msg(body)>> >>))

\* Lines 170-175; json_error holds the decoder's message.
DecodeErrorResult(message, reply, sanitized) ==
    JObj(DictOf(<< <<K_error, Msg("Failed to parse Claude response as JSON")>>,
                   <<K_json_error, Msg(message)>>,
                   <<K_raw_response, JStr(Excerpt(reply))>>,
                   <<K_sanitized_attempt, JStr(Excerpt(sanitized))>> >>))

\* Lines 177-181; exception holds the class of the exception.
UnexpectedErrorResult(exception, data) ==
    JObj(DictOf(<< <<K_error, Msg("Unexpected error processing Claude response")>>,
                   <<K_exception, Msg(exception)>>,
                   <<K_raw_response, data>> >>))

(* ------------------- the provider's replies --------------------------- *)

MaxTok == 4
MaxItems == 3

\* A reply as the model composed it: prose, an optional fence opening, the
\* body as tokens joined by a separator, an optional fence closing, prose.
Reply(pre, open, toks, sep, close, post) ==
    [pre |-> pre, open |-> open, toks |-> toks, sep |-> sep, close |-> close, post |-> post]

RECURSIVE Render(_, _)
Render(toks, sep) ==
    IF toks = <<>> THEN <<>>
    ELSE IF Len(toks) = 1 THEN toks[1]
    ELSE toks[1] \o sep \o Render(Tail(toks), sep)

BodyOf(r) == Render(r.toks, r.sep)
TextOf(r) == r.pre \o r.open \o BodyOf(r) \o r.close \o r.post

Quoted(t) == <<QUOTE>> \o t \o <<QUOTE>>

\* Replies made of up to MaxTok pieces in any order: fences, the word json
\* (the tag behind a fence, prose elsewhere), braces, whitespace and a letter.
Pieces == {FENCE, JSONTAG, <<LBRACE>>, <<RBRACE>>, <<" ">>, <<NL>>, <<"a">>}
PieceTexts == UNION {{Concat(ts) : ts \in [1..k -> Pieces]} : k \in 0..MaxTok}
PieceReplies == {Reply(<<>>, <<>>, <<t>>, <<>>, <<>>, <<>>) : t \in PieceTexts}

\* Bodies: objects with string values and nested objects, values that are no
\* digest, and text that is no JSON.
Bodies ==
    { <<<<LBRACE>>, <<RBRACE>>>>,
      <<<<LBRACE>>, Quoted(<<"a">>), <<":">>, Quoted(<<"x", " ", " ", "y">>), <<RBRACE>>>>,
      <<<<LBRACE>>, Quoted(<<"a">>), <<":">>, <<LBRACE>>, Quoted(<<"b">>), <<":">>, <<"1">>,
        <<RBRACE>>, <<RBRACE>>>>,
      <<<<LBRACE>>, Quoted(<<"a">>), <<":">>, Quoted(<<RBRACE>> \o FENCE), <<RBRACE>>>>,
      <<<<LBRACE>>, Quoted(K_error), <<":">>, Quoted(<<"x">>), <<",">>, Quoted(K_insights),
        <<":">>, <<"[", "]">>, <<RBRACE>>>>,
      <<<<LBRACE>>, Quoted(K_insights), <<":">>, <<"5">>, <<RBRACE>>>>,
      <<<<LBRACE>>, Quoted(K_quotes), <<":">>, <<"[">>, <<"1">>, <<"]">>, <<RBRACE>>>>,
      <<<<LBRACE>>, Quoted(K_insights), <<":">>, <<"[">>,
        <<LBRACE>>, Quoted(K_confidence_score), <<":">>, <<"n", "u", "l", "l">>, <<RBRACE>>,
        <<",">>, <<LBRACE>>, <<RBRACE>>, <<"]">>, <<RBRACE>>>>,
      <<<<"5">>>>,
      <<<<"[">>, Quoted(K_error), <<"]">>>>,
      <<<<"n", "o", "t", " ", "j", "s", "o", "n", " ", "a", "t", " ", "a", "l", "l">>>> }

\* Prose around the body: words, a stray brace, a stray fence.
Leading == {<<>>, <<"a", " ">>, <<RBRACE, " ">>, FENCE}
Trailing == {<<>>, <<" ", "a">>, <<" ", LBRACE>>, FENCE}
Opens == {<<>>, FENCE, FENCE \o JSONTAG \o <<NL>>}
Closes == {<<>>, FENCE, <<NL>> \o FENCE}
Seps == {<<>>, <<NL>>}

DecoratedReplies ==
    {Reply(pre, open, toks, sep, close, post) :
        pre \in Leading, open \in Opens, toks \in Bodies, sep \in Seps,
        close \in Closes, post \in Trailing}

\* One insight or quote: its text, and its score when it has one (a score of
\* -1 stands for an item without the field).
Letters == <<"a", "b", "c", "d", "e">>
Digits == <<"0", "1", "2", "3", "4", "5", "6", "7", "8", "9">>
ItemToks(text_key, score_key, i, score) ==
    <<<<LBRACE>>, Quoted(text_key), <<":">>, Quoted(<<Letters[i]>>)>>
    \o (IF score = -1 THEN <<>> ELSE <<<<",">>, Quoted(score_key), <<":">>, <<Digits[score + 1]>>>>)
    \o <<<<RBRACE>>>>

RECURSIVE ListToks(_, _, _, _)
ListToks(text_key, score_key, scores, i) ==
    IF i > Len(scores) THEN <<>>
    ELSE (IF i > 1 THEN <<<<",">>>> ELSE <<>>)
         \o ItemToks(text_key, score_key, i, scores[i])
         \o ListToks(text_key, score_key, scores, i + 1)

\* The digest the prompt asks for, lines 62-91.
DigestToks(iscores, qscores) ==
    <<<<LBRACE>>, Quoted(K_insights), <<":">>, <<"[">>>>
    \o ListToks(K_insight, K_confidence_score, iscores, 1)
    \o <<<<"]">>, <<",">>, Quoted(K_quotes), <<":">>, <<"[">>>>
    \o ListToks(K_quote, K_relevance_score, qscores, 1)
    \o <<<<"]">>, <<RBRACE>>>>

\* The scores of a list's items, in order.
Scores == {-1, 0, 3, 9}
ScoreLists(n) == UNION {[1..k -> Scores] : k \in 0..n}

\* Digests of up to MaxItems items, and the empty digest in a fence.
DigestLists ==
    {p \in ScoreLists(MaxItems) \X ScoreLists(MaxItems) : Len(p[1]) + Len(p[2]) <= MaxItems}
DigestReplies ==
    {Reply(<<>>, <<>>, DigestToks(p[1], p[2]), <<>>, <<>>, <<>>) : p \in DigestLists}
    \cup {Reply(pre, FENCE \o JSONTAG \o <<NL>>, DigestToks(<<>>, <<>>), <<>>, <<NL>> \o FENCE, <<>>) :
            pre \in {<<>>, <<"a", " ">>}}

\* Replies around the excerpt limit.
LongReplies ==
    {Reply(pre, <<>>, <<t>>, <<>>, <<>>, <<>>) :
        pre \in {<<>>, <<" ", " ">>, <<"a", "a">>},
        t \in {Repeat("a", ExcerptLimit - 1), Repeat("a", ExcerptLimit),
               Repeat("a", ExcerptLimit + 1),
               <<"a">> \o Repeat(" ", ExcerptLimit) \o <<"b">>}}

Replies == PieceReplies \cup DecoratedReplies \cup DigestReplies \cup LongReplies
NoReply == Reply(<<>>, <<>>, <<>>, <<>>, <<>>, <<>>)

\* The provider's payload around a reply, {content: [{text: reply}]}, and
\* payloads without the text.
PayloadOf(text) ==
    JObj(DictOf(<< <<K_content, JArr(<< JObj(DictOf(<< <<K_text, text>> >>)) >>)>> >>))
OtherPayloads ==
    { JObj(<<>>), JArr(<<>>), PayloadOf(JNum(5)), PayloadOf(JNull),
      JObj(DictOf(<< <<K_content, JArr(<<>>)>> >>)) }

\* An HTTP response: json is what response.json() gives, when the body
\* decodes.
Response(status_code, text, decodes, json) ==
    [status_code |-> status_code, text |-> text, decodes |-> decodes, json |-> json]
NoResponse == Response(0, "", FALSE, JNull)

Credential(s) == [set |-> TRUE, s |-> s]
NoCredential == [set |-> FALSE, s |-> <<>>]
ApiKeys == {NoCredential, Credential(<<>>), Credential(<<"s", "k">>)}

\* A check for None alone.
IsNone(api_key) == ~api_key.set

\* not api_key, line 47: None and the empty string.
Missing(api_key) == ~api_key.set \/ api_key.s = <<>>

(* ------------------------ call_claude_for_digest ---------------------- *)

VARIABLES
    pc,             \* where the analysis stands
    api_key,        \* the credential passed in
    requests,       \* HTTP requests issued by this analysis
    reply,          \* the reply the provider composed (NoReply before it answers)
    response,       \* the HTTP response
    data,           \* response.json()
    raw_text,       \* data["content"][0]["text"]
    sanitized_text, \* sanitize_json_response(raw_text)
    loaded,         \* the outcome of json.loads(sanitized_text)
    result,         \* the value call_claude_for_digest returned
    returned_at,    \* the line of the return statement taken, 0 before it
    exc,            \* the exception that left call_claude_for_digest, "" if none
    download        \* main offers the download button

vars == <<pc, api_key, requests, reply, response, data, raw_text, sanitized_text,
          loaded, result, returned_at, exc, download>>

NotLoaded == DecodeError("not run", -1)

Init ==
    /\ pc = "start"
    /\ api_key \in ApiKeys
    /\ requests = 0
    /\ reply = NoReply
    /\ response = NoResponse
    /\ data = JNull
    /\ raw_text = <<>>
    /\ sanitized_text = <<>>
    /\ loaded = NotLoaded
    /\ result = JNull
    /\ returned_at = 0
    /\ exc = ""
    /\ download = FALSE

\* return value, at the return statement of the given line.
Return(v, line) ==
    /\ pc' = "returned"
    /\ result' = v
    /\ returned_at' = line

\* An exception leaves the coroutine.
Raise(e) ==
    /\ pc' = "raised"
    /\ exc' = e
    /\ UNCHANGED <<result, returned_at>>

\* Lines 47-48: without a credential, return at once.
CheckCredential ==
    /\ pc = "start"
    /\ IF Missing(api_key)
       THEN Return(ConfigErrorResult, 48)
       ELSE pc' = "post" /\ UNCHANGED <<result, returned_at>>
    /\ UNCHANGED <<api_key, requests, reply, response, data, raw_text, sanitized_text,
                   loaded, exc, download>>

\* Lines 122-132: the request is issued and no byte of the response arrives
\* within the read timeout: ReadTimeout, caught.
PostReadTimeout ==
    /\ pc = "post"
    /\ requests' = requests + 1
    /\ Return(TimeoutResult, 130)
    /\ UNCHANGED <<api_key, reply, response, data, raw_text, sanitized_text, loaded,
                   exc, download>>

\* The failures of the request that are no ReadTimeout.  The client's timeout
\* of line 123 also bounds connecting, sending and waiting for a pooled
\* connection, each with an exception class of its own; line 129 names
\* ReadTimeout only.
TransportFailures == {"ConnectTimeout", "WriteTimeout", "PoolTimeout", "ConnectError"}

PostTransportFailure ==
    /\ pc = "post"
    /\ requests' = requests + 1
    /\ \E e \in TransportFailures : Raise(e)
    /\ UNCHANGED <<api_key, reply, response, data, raw_text, sanitized_text, loaded,
                   download>>

\* Lines 123-128: the provider answers with a reply in a message payload.
PostAnswered ==
    /\ pc = "post"
    /\ requests' = requests + 1
    /\ \E r \in Replies :
          /\ reply' = r
          /\ response' = Response(200, "message", TRUE, PayloadOf(JStr(TextOf(r))))
    /\ pc' = "status"
    /\ UNCHANGED <<api_key, data, raw_text, sanitized_text, loaded, result, returned_at,
                   exc, download>>

\* Lines 123-128: the provider, or a proxy before it, answers with something
\* else: an error status, a body that is no JSON, a payload without the text.
PostAnsweredOther ==
    /\ pc = "post"
    /\ requests' = requests + 1
    /\ response' \in
          {Response(st, "overloaded", TRUE, JObj(<<>>)) : st \in {201, 429, 500}}
          \cup {Response(st, "<html>", FALSE, JNull) : st \in {200, 502}}
          \cup {Response(200, "payload", TRUE, v) : v \in OtherPayloads}
    /\ pc' = "status"
    /\ UNCHANGED <<api_key, reply, data, raw_text, sanitized_text, loaded, result,
                   returned_at, exc, download>>

\* Lines 134-139.
CheckStatus ==
    /\ pc = "status"
    /\ IF response.status_code # 200
       THEN Return(ProviderErrorResult(response.status_code, response.text), 135)
       ELSE pc' = "decode" /\ UNCHANGED <<result, returned_at>>
    /\ UNCHANGED <<api_key, requests, reply, response, data, raw_text, sanitized_text,
                   loaded, exc, download>>

\* Line 141, outside the try of line 143: a body that is no JSON raises.
DecodeBody ==
    /\ pc = "decode"
    /\ IF response.decodes
       THEN /\ data' = response.json
            /\ pc' = "extract"
            /\ UNCHANGED <<result, returned_at, exc>>
       ELSE /\ Raise("JSONDecodeError")
            /\ UNCHANGED data
    /\ UNCHANGED <<api_key, requests, reply, response, raw_text, sanitized_text, loaded,
                   download>>

\* Lines 145-146, and the handler of lines 176-181 for what they raise.  A
\* text that is no str has no strip.
ExtractAndSanitize ==
    /\ pc = "extract"
    /\ LET t == ReplyText(data)
       IN  IF ~t.ok
           THEN /\ Return(UnexpectedErrorResult(t.exc, data), 177)
                /\ UNCHANGED <<raw_text, sanitized_text>>
           ELSE IF t.v.t # "str"
           THEN /\ Return(UnexpectedErrorResult("AttributeError", data), 177)
                /\ UNCHANGED <<raw_text, sanitized_text>>
           ELSE /\ raw_text' = t.v.s
                /\ sanitized_text' = sanitize_json_response(t.v.s)
                /\ pc' = "loads"
                /\ UNCHANGED <<result, returned_at>>
    /\ UNCHANGED <<api_key, requests, reply, response, data, loaded, exc, download>>

\* Line 149, and the handler of lines 169-175 for a JSONDecodeError.
ParseReply ==
    /\ pc = "loads"
    /\ loaded' = json_loads(sanitized_text)
    /\ IF loaded'.ok
       THEN pc' = "rank" /\ UNCHANGED <<result, returned_at>>
       ELSE Return(DecodeErrorResult(loaded'.msg, ReplyText(data).v.s, sanitized_text), 170)
    /\ UNCHANGED <<api_key, requests, reply, response, data, raw_text, sanitized_text,
                   exc, download>>

\* Lines 151-167, and the handler of lines 176-181 for what they raise.
RankAndReturn ==
    /\ pc = "rank"
    /\ LET r == Rank(loaded.v)
       IN  IF r.ok THEN Return(r.v, 167)
           ELSE Return(UnexpectedErrorResult(r.exc, data), 177)
    /\ UNCHANGED <<api_key, requests, reply, response, data, raw_text, sanitized_text,
                   loaded, exc, download>>

(* ------------------------------- main --------------------------------- *)

\* "error" not in result, line 248.
OffersDownload(v) == LET has == PyIn(K_error, v) IN has.ok /\ ~has.b

\* Lines 220-255: the result is shown, and the download offered for a result
\* without the error key.
ShowResult ==
    /\ pc = "returned"
    /\ pc' = "shown"
    /\ download' = OffersDownload(result)
    /\ UNCHANGED <<api_key, requests, reply, response, data, raw_text, sanitized_text,
                   loaded, result, returned_at, exc>>

\* Lines 257-258: an exception out of process_transcript is reported.
ShowFailure ==
    /\ pc = "raised"
    /\ pc' = "failed"
    /\ UNCHANGED <<api_key, requests, reply, response, data, raw_text, sanitized_text,
                   loaded, result, returned_at, exc, download>>

Next ==
    \/ CheckCredential
    \/ PostReadTimeout
    \/ PostTransportFailure
    \/ PostAnswered
    \/ PostAnsweredOther
    \/ CheckStatus
    \/ DecodeBody
    \/ ExtractAndSanitize
    \/ ParseReply
    \/ RankAndReturn
    \/ ShowResult
    \/ ShowFailure

Spec == Init /\ [][Next]_vars

(* ------------------------------ claims -------------------------------- *)

\* Two texts decode to the same value.
SameDecoded(x, y) ==
    LET a == json_loads(x)
        b == json_loads(y)
    IN  a.ok /\ b.ok /\ a.v = b.v

\* The text decodes to a JSON object.
IsObjectText(x) == LET a == json_loads(x) IN a.ok /\ a.v.t = "obj"

\* C1: a valid JSON object with prose before its first opening brace and after
\* its last closing brace is recovered unchanged: the sanitized reply decodes
\* to the value the object's own text decodes to.
C1_ProseStripped ==
    ( /\ pc = "loads"
      /\ reply.open = <<>> /\ reply.close = <<>>
      /\ Find(reply.pre, LBRACE) = -1
      /\ RFind(reply.post, RBRACE) = -1
      /\ IsObjectText(BodyOf(reply)) )
    => SameDecoded(sanitized_text, BodyOf(reply))

\* C2: a JSON object in a fenced block, tagged json or not, with or without
\* commentary around the fence, decodes after sanitizing to what the object's
\* text alone decodes to after sanitizing.
C2_FenceTransparent ==
    ( /\ pc = "loads"
      /\ reply.open # <<>> /\ reply.close # <<>>
      /\ IsObjectText(BodyOf(reply)) )
    => SameDecoded(sanitized_text, sanitize_json_response(BodyOf(reply)))

\* The score the specification gives an item: its field, 0 without it.
SpecScore(x, field) == IF field \in DOMAIN x.o THEN x.o[field].n ELSE 0

\* out is the stable descending sort of in: some rearrangement of in's places
\* gives out, scores never increase, and equal scores keep in's order.
IsStableDescending(in, out, field) ==
    /\ Len(out) = Len(in)
    /\ \E pi \in [1..Len(in) -> 1..Len(in)] :
          /\ \A i, j \in 1..Len(in) : i # j => pi[i] # pi[j]
          /\ \A i \in 1..Len(in) : out[i] = in[pi[i]]
          /\ \A i, j \in 1..Len(in) :
                i < j => /\ SpecScore(out[i], field) >= SpecScore(out[j], field)
                         /\ SpecScore(out[i], field) = SpecScore(out[j], field)
                               => pi[i] < pi[j]

\* A list of dicts whose score, where present, is a number.
IsScoredList(v, field) ==
    /\ v.t = "arr"
    /\ \A i \in 1..Len(v.a) :
          /\ v.a[i].t = "obj"
          /\ field \in DOMAIN v.a[i].o => v.a[i].o[field].t = "num"

RankedLists == {<<K_insights, K_confidence_score>>, <<K_quotes, K_relevance_score>>}

\* C3: of a decoded object, the returned insights are the stable descending
\* sort of the decoded insights by confidence_score and the returned quotes
\* that of the decoded quotes by relevance_score, an item without the score
\* ranking as 0; and lists of such items never end in an error result.
C3_RankedStable ==
    ( /\ pc = "returned"
      /\ loaded.ok /\ loaded.v.t = "obj"
      /\ \A k \in RankedLists :
            k[1] \in DOMAIN loaded.v.o => IsScoredList(loaded.v.o[k[1]], k[2]) )
    => /\ returned_at = 167
       /\ DOMAIN result.o = DOMAIN loaded.v.o
       /\ \A k \in RankedLists :
             k[1] \in DOMAIN loaded.v.o =>
                 /\ result.o[k[1]].t = "arr"
                 /\ IsStableDescending(loaded.v.o[k[1]].a, result.o[k[1]].a, k[2])

\* A digest was returned whose three insights changed places, one of them
\* without a score and tied with another.
C3_Witness ==
    /\ pc = "returned" /\ returned_at = 167
    /\ loaded.v.t = "obj" /\ K_insights \in DOMAIN loaded.v.o
    /\ LET in == loaded.v.o[K_insights].a
           out == result.o[K_insights].a
       IN  /\ Len(in) = 3
           /\ out # in
           /\ \E i, j \in 1..3 :
                 /\ i # j
                 /\ K_confidence_score \notin DOMAIN in[i].o
                 /\ K_confidence_score \in DOMAIN in[j].o
                 /\ SpecScore(in[j], K_confidence_score) = 0

\* C4: once an HTTP response has arrived, whatever its status and body, no
\* exception leaves call_claude_for_digest; and the result of the last
\* handler carries the exception and the whole payload.
C4_ErrorsAreReturned ==
    /\ response # NoResponse => pc \notin {"raised", "failed"}
    /\ (pc = "returned" /\ returned_at = 177) =>
          /\ K_exception \in DOMAIN result.o
          /\ result.o[K_raw_response] = data

\* C5: with the credential missing (None or empty) no request is ever issued
\* and the analysis returns the ConfigError result; a request is issued only
\* with a credential.
C5_NoRequestWithoutCredential ==
    /\ (~api_key.set \/ api_key.s = <<>>) =>
          /\ requests = 0
          /\ pc \in {"start", "returned", "shown"}
          /\ pc # "start" => (result = ConfigErrorResult /\ returned_at = 48)
    /\ requests > 0 => (api_key.set /\ api_key.s # <<>>)
    /\ pc \notin {"start", "returned", "shown"} => (api_key.set /\ api_key.s # <<>>)

\* The call returned for an empty credential, with no request issued.
C5_Witness ==
    /\ pc = "returned"
    /\ api_key = Credential(<<>>)
    /\ result = ConfigErrorResult
    /\ requests = 0

TimeoutExceptions == {"ReadTimeout", "ConnectTimeout", "WriteTimeout", "PoolTimeout"}

\* C6: a request that runs into the timeout, in whatever phase, ends in the
\* Timeout result and never in an exception, and an analysis issues at most
\* one request.
C6_TimeoutReturned ==
    /\ requests <= 1
    /\ pc \in {"raised", "failed"} => exc \notin TimeoutExceptions

FailureReturns == {48, 130, 135, 170, 177}

\* C7: the returned value holds the error key exactly when a failure path
\* returned it.
C7_ErrorKeyIffFailure ==
    pc = "returned" => (PyIn(K_error, result).b <=> returned_at \in FailureReturns)

\* C8: a JSON object text with newlines between its tokens decodes after
\* sanitizing to what its single-line form decodes to.
C8_NewlinesBetweenTokens ==
    ( /\ pc = "loads"
      /\ reply.sep = <<NL>>
      /\ reply.pre = <<>> /\ reply.open = <<>> /\ reply.close = <<>> /\ reply.post = <<>>
      /\ IsObjectText(Render(reply.toks, <<" ">>)) )
    => SameDecoded(sanitized_text, Render(reply.toks, <<" ">>))

\* C9: sanitizing a sanitized text changes nothing.
C9_SanitizeIdempotent ==
    pc = "loads" => sanitize_json_response(sanitized_text) = sanitized_text

\* A reply whose fenced object was extracted and whose whitespace was
\* collapsed has been sanitized.
C9_Witness ==
    /\ pc = "loads"
    /\ FenceSearch(Strip(raw_text))[1] # 0
    /\ Len(sanitized_text) > 2
    /\ \E i \in 1..Len(raw_text) : raw_text[i] = NL
    /\ sanitized_text # raw_text

\* excerpt is text whole when text has at most ExcerptLimit characters, else
\* its first ExcerptLimit characters and the ellipsis.
IsExcerpt(excerpt, text) ==
    /\ Len(text) <= ExcerptLimit => excerpt = text
    /\ Len(text) > ExcerptLimit =>
          /\ Len(excerpt) = ExcerptLimit + Len(ELLIPSIS)
          /\ SubSeq(excerpt, 1, ExcerptLimit) = SubSeq(text, 1, ExcerptLimit)
          /\ SubSeq(excerpt, ExcerptLimit + 1, Len(excerpt)) = ELLIPSIS

\* The sanitized reply did not decode.
DecodeFailed == loaded # NotLoaded /\ ~loaded.ok

\* C10, as amended: when the sanitized reply does not decode, the call returns
\* the JSONDecodeError result with the decoder's message and an excerpt of the
\* raw reply and of the sanitized text; each excerpt is the text whole when it
\* has at most 500 characters, and else its first 500 characters followed by
\* the three characters of the ellipsis, 503 in all.
C10_DecodeErrorExcerpts ==
    DecodeFailed =>
        /\ pc \in {"returned", "shown"}
        /\ returned_at = 170
        /\ ~json_loads(sanitized_text).ok
        /\ DOMAIN result.o = {K_error, K_json_error, K_raw_response, K_sanitized_attempt}
        /\ result.o[K_json_error] = Msg(json_loads(sanitized_text).msg)
        /\ result.o[K_raw_response].t = "str"
        /\ IsExcerpt(result.o[K_raw_response].s, TextOf(reply))
        /\ result.o[K_sanitized_attempt].t = "str"
        /\ IsExcerpt(result.o[K_sanitized_attempt].s, sanitized_text)

\* C10, as stated: the same, with each excerpt, ellipsis and all, of at most
\* 500 characters.
C10_ExcerptsWithinLimit ==
    DecodeFailed =>
        /\ C10_DecodeErrorExcerpts
        /\ Len(result.o[K_raw_response].s) <= ExcerptLimit
        /\ Len(result.o[K_sanitized_attempt].s) <= ExcerptLimit

\* A reply of more than 500 characters whose sanitized text has exactly 500
\* did not decode: the raw excerpt is cut, the sanitized one whole.
C10_Witness ==
    /\ pc = "returned" /\ returned_at = 170
    /\ Len(raw_text) > ExcerptLimit
    /\ Len(sanitized_text) = ExcerptLimit
    /\ result.o[K_sanitized_attempt].s = sanitized_text
    /\ Len(result.o[K_raw_response].s) = ExcerptLimit + 3

=============================================================================
